---- MODULE Spec2Model ----
(***************************************************************************)
(* A model of the xrandr --props parser of i3adc, and of its i3 event       *)
(* thread (src/i3/thread.go).                                              *)
(*                                                                         *)
(* Two versions of the parser are in the repository:                       *)
(*   variant "A"  src/xrandr/parser.go      (definitions with suffix A)    *)
(*   variant "B"  src/unnamed/part_000      (definitions with suffix B)    *)
(*                                                                         *)
(* The parser reads its input through Lexer.Scan.  The lexer's source is   *)
(* not part of the sources at hand, so the input of the model is the token *)
(* stream the lexer produces (spec.md 4.1): every token is classified,     *)
(* whitespace is never dropped by the lexer, and EndOfInput is returned    *)
(* repeatedly once the stream is exhausted.                                *)
(*                                                                         *)
(* A Go string is modelled as the sequence of its characters, so that the  *)
(* regular expressions, strconv and strings.TrimSpace are computed rather  *)
(* than assumed.                                                           *)
(***************************************************************************)
EXTENDS Integers, Sequences, FiniteSets, TLC

VARIABLES
  variant,   \* which parser source runs: "A" or "B"
  entry,     \* the function the run calls: "ParseProps" or one production
  input,     \* the token stream behind the lexer
  lexer,     \* Parser.lexer: the number of tokens Lexer.Scan has handed out
  token,     \* Parser.token
  skipWS,    \* Parser.skipWS
  output,    \* the Output under construction in parseOutput
  props,     \* PropsOutput.Outputs of ParseProps
  err,       \* the error returned (Nil when none)
  name,      \* parseProperty's local name
  value,     \* parseProperty's local value
  stop,      \* parseProperty's local stop (variant B)
  pc,        \* the position of the parser in its code
  ctx,       \* Thread.ctx: "nil", "live" or "cancelled" (src/i3/thread.go)
  cfn,       \* Thread.cfn is set
  msgCh,     \* the buffered channel Thread.msgCh
  rcvr,      \* Thread.rcvr: "nil", "open" or "closed"
  events,    \* the i3 output events still to arrive at the receiver
  late,      \* the relay's event in hand arrived after the cancellation
  startPc,   \* the position of the goroutine that runs Start
  stopPc,    \* the position of the goroutine that runs Stop
  relayPc    \* the position of the relay goroutine Start spawns

parserVars == <<variant, entry, input, lexer, token, skipWS, output, props,
                err, name, value, stop, pc>>

threadVars == <<ctx, cfn, msgCh, rcvr, events, late, startPc, stopPc, relayPc>>

vars == <<variant, entry, input, lexer, token, skipWS, output, props, err,
          name, value, stop, pc, ctx, cfn, msgCh, rcvr, events, late,
          startPc, stopPc, relayPc>>

----------------------------------------------------------------------------
(* Bounds of the model.                                                    *)

\* Longest free token window handed to a single production.
MaxSnippet == 3
\* Most lines (property lines, mode lines) of a line-structured window.
MaxLines == 2
\* Most output blocks of a document.
MaxOutputs == 2
\* Most i3 output events that arrive while the thread runs.
MaxEvents == 2

----------------------------------------------------------------------------
(* String literals as character sequences.                                 *)

S_Screen == <<"S", "c", "r", "e", "e", "n">>
S_minimum == <<"m", "i", "n", "i", "m", "u", "m">>
S_current == <<"c", "u", "r", "r", "e", "n", "t">>
S_maximum == <<"m", "a", "x", "i", "m", "u", "m">>
S_x == <<"x">>
S_y == <<"y">>
S_axis == <<"a", "x", "i", "s">>
S_normal == <<"n", "o", "r", "m", "a", "l">>
S_left == <<"l", "e", "f", "t">>
S_inverted == <<"i", "n", "v", "e", "r", "t", "e", "d">>
S_right == <<"r", "i", "g", "h", "t">>
S_connected == <<"c", "o", "n", "n", "e", "c", "t", "e", "d">>
S_disconnected == <<"d", "i", "s", "c", "o", "n", "n", "e", "c", "t", "e", "d">>
S_primary == <<"p", "r", "i", "m", "a", "r", "y">>
S_eDP1 == <<"e", "D", "P", "-", "1">>
S_HDMI1 == <<"H", "D", "M", "I", "-", "1">>
S_Res1920x1080 == <<"1", "9", "2", "0", "x", "1", "0", "8", "0">>
S_Res1920x1080i == <<"1", "9", "2", "0", "x", "1", "0", "8", "0", "i">>
S_Res1280x720 == <<"1", "2", "8", "0", "x", "7", "2", "0">>
S_Dim310mm == <<"3", "1", "0", "m", "m">>
S_Dim170mm == <<"1", "7", "0", "m", "m">>
S_Dim310cm == <<"3", "1", "0", "c", "m">>
S_Brightness == <<"B", "r", "i", "g", "h", "t", "n", "e", "s", "s">>
S_EDID == <<"E", "D", "I", "D">>
S_Gamma == <<"G", "a", "m", "m", "a">>
S_N0 == <<"0">>
S_N8 == <<"8">>
S_F6000 == <<"6", "0", ".", "0", "0">>
S_F5994 == <<"5", "9", ".", "9", "4">>
S_F1000000 == <<"1", ".", "0", "0", "0", "0", "0", "0">>
S_Hex00ff == <<"0", "0", "f", "f">>
S_Hex1a2b == <<"1", "a", "2", "b">>
S_Colon == <<":">>
S_Comma == <<",">>
S_LParen == <<"(">>
S_RParen == <<")">>
S_Plus == <<"+">>
S_Star == <<"*">>
S_Space == <<" ">>
S_Spaces2 == <<" ", " ">>
S_Spaces5 == <<" ", " ", " ", " ", " ">>
S_Tab == <<"\t">>
S_Newline == <<"\n">>
S_Empty == << >>

----------------------------------------------------------------------------
(* regexp, strconv and strings.                                            *)

Digits == {"0", "1", "2", "3", "4", "5", "6", "7", "8", "9"}

DigitVal(c) ==
  CASE c = "0" -> 0 [] c = "1" -> 1 [] c = "2" -> 2 [] c = "3" -> 3
    [] c = "4" -> 4 [] c = "5" -> 5 [] c = "6" -> 6 [] c = "7" -> 7
    [] c = "8" -> 8 [] c = "9" -> 9

\* [0-9]+ : a non-empty run of digits.
IsDigits(s) == Len(s) > 0 /\ \A i \in 1..Len(s) : s[i] \in Digits

\* strconv.ParseUint(s, 10, 64) / strconv.ParseInt(s, 10, 64) of a digit string
\* (the literals of the model stay far below the 64-bit range).
RECURSIVE ParseUint(_)
ParseUint(s) ==
  IF Len(s) = 0 THEN 0
  ELSE 10 * ParseUint(SubSeq(s, 1, Len(s) - 1)) + DigitVal(s[Len(s)])

\* The index of the first occurrence of character c in s, 0 when there is none.
IndexOf(s, c) ==
  IF \E i \in 1..Len(s) : s[i] = c
  THEN CHOOSE i \in 1..Len(s) : s[i] = c /\ \A j \in 1..(i - 1) : s[j] # c
  ELSE 0

\* dimensionPattern.FindStringSubmatch: ^([0-9]+)mm$
\* The match and its one group, or the empty sequence (nil).
dimensionPattern(s) ==
  IF /\ Len(s) >= 3
     /\ s[Len(s)] = "m"
     /\ s[Len(s) - 1] = "m"
     /\ IsDigits(SubSeq(s, 1, Len(s) - 2))
  THEN <<s, SubSeq(s, 1, Len(s) - 2)>>
  ELSE << >>

\* resolutionPattern.FindStringSubmatch of src/xrandr/parser.go: ^([0-9]+)x([0-9]+)$
resolutionPatternA(s) ==
  LET k == IndexOf(s, "x") IN
  IF /\ k > 0
     /\ IsDigits(SubSeq(s, 1, k - 1))
     /\ IsDigits(SubSeq(s, k + 1, Len(s)))
  THEN <<s, SubSeq(s, 1, k - 1), SubSeq(s, k + 1, Len(s))>>
  ELSE << >>

\* resolutionPattern.FindStringSubmatch of src/unnamed/part_000: ^([0-9]+)x([0-9]+)i?$
resolutionPatternB(s) ==
  LET k == IndexOf(s, "x")
      e == IF Len(s) > 0 /\ s[Len(s)] = "i" THEN Len(s) - 1 ELSE Len(s)
  IN
  IF /\ k > 0
     /\ IsDigits(SubSeq(s, 1, k - 1))
     /\ IsDigits(SubSeq(s, k + 1, e))
  THEN <<s, SubSeq(s, 1, k - 1), SubSeq(s, k + 1, e)>>
  ELSE << >>

SpaceChars == {" ", "\t", "\n", "\r"}

\* strings.TrimSpace: leading and trailing white space removed.
RECURSIVE TrimLeft(_)
TrimLeft(s) ==
  IF Len(s) > 0 /\ s[1] \in SpaceChars THEN TrimLeft(Tail(s)) ELSE s

RECURSIVE TrimRight(_)
TrimRight(s) ==
  IF Len(s) > 0 /\ s[Len(s)] \in SpaceChars
  THEN TrimRight(SubSeq(s, 1, Len(s) - 1)) ELSE s

TrimSpace(s) == TrimRight(TrimLeft(s))

\* strconv.ParseFloat of a literal digits.digits : the value as the pair
\* <<m, e>> standing for m / 10^e, in lowest terms of ten (60.00 is <<60, 0>>).
RECURSIVE NormFloat(_, _)
NormFloat(m, e) ==
  IF e > 0 /\ m % 10 = 0 THEN NormFloat(m \div 10, e - 1) ELSE <<m, e>>

ParseFloat(s) ==
  LET k == IndexOf(s, ".") IN
  IF k = 0 THEN <<ParseUint(s), 0>>
  ELSE NormFloat(ParseUint(SubSeq(s, 1, k - 1) \o SubSeq(s, k + 1, Len(s))),
                 Len(s) - k)

----------------------------------------------------------------------------
(* Tokens and the lexer.                                                   *)

TokenTypeEOF == "EOF"
TokenTypeName == "Name"
TokenTypeIntValue == "IntValue"
TokenTypeFloatValue == "FloatValue"
TokenTypePunctuator == "Punctuator"
TokenTypeWhiteSpace == "WhiteSpace"
TokenTypeLineTerminator == "LineTerminator"

\* A token of the input stream (its line is given by its place in the stream).
Tok(t, l) == [Type |-> t, Literal |-> l]

\* The zero Token a new Parser holds before its first scan.
ZeroToken == [Type |-> "", Literal |-> S_Empty, Line |-> 0]

\* The 1-based line of the i-th token: one more than the number of line
\* terminators before it.
LineOf(i) ==
  1 + Cardinality({j \in 1..(i - 1) :
                     j <= Len(input) /\ input[j].Type = TokenTypeLineTerminator})

\* Lexer.Scan with the cursor after n tokens: the next token and the new
\* cursor; EndOfInput, again and again, once the stream is exhausted.
LexerScan(n) ==
  IF n < Len(input)
  THEN [tok |-> [Type |-> input[n + 1].Type,
                 Literal |-> input[n + 1].Literal,
                 Line |-> LineOf(n + 1)],
        pos |-> n + 1]
  ELSE [tok |-> [Type |-> TokenTypeEOF, Literal |-> S_Empty,
                 Line |-> LineOf(Len(input) + 1)],
        pos |-> n]

----------------------------------------------------------------------------
(* Errors.                                                                 *)

Nil == [msg |-> "nil", line |-> 0, wrap |-> ""]

\* "... unexpected token found: %s (%q). Wanted: %s. Line: %d. Column: %d"
unexpected(tok) == [msg |-> "unexpected token", line |-> tok.Line, wrap |-> ""]

\* "syntax error: unexpected literal %q found for token type %q. Line: %d ..."
unexpectedLiteral(tok) ==
  [msg |-> "unexpected literal", line |-> tok.Line, wrap |-> ""]

\* fmt.Errorf("expected resolution: got %q", p.token.Literal)
expectedResolution == [msg |-> "expected resolution", line |-> 0, wrap |-> ""]

----------------------------------------------------------------------------
(* Parser utilities of src/xrandr/parser.go.  A parser state p is the      *)
(* record [lexer, token, skipWS].                                          *)

\* Parser.scan: the next token, white space skipped while skipWS is set.
RECURSIVE scanA(_)
scanA(p) ==
  LET s == LexerScan(p.lexer)
      q == [p EXCEPT !.lexer = s.pos, !.token = s.tok]
  IN IF p.skipWS /\ s.tok.Type = TokenTypeWhiteSpace THEN scanA(q) ELSE q

\* Parser.match: scans on when the current token has type t.
matchA(p, t) ==
  IF p.token.Type = t THEN [p |-> scanA(p), match |-> TRUE]
                      ELSE [p |-> p, match |-> FALSE]

\* Parser.expect: the token that was current, consumed when its type is t.
expectA(p, t) ==
  LET m == matchA(p, t) IN
  [p |-> m.p, tok |-> p.token,
   err |-> IF m.match THEN Nil ELSE unexpected(m.p.token)]

\* Parser.skip
skipA(p, t) ==
  LET m == matchA(p, t) IN
  [p |-> m.p, err |-> IF m.match THEN Nil ELSE unexpected(p.token)]

\* A skipWithLiteral that compares the type only: any literal is accepted.
skipAnyLiteralA(p, t, l) == skipA(p, t)

\* Parser.skipWithLiteral: the literal is compared after the token was skipped.
skipWithLiteralA(p, t, l) ==
  LET r == skipA(p, t) IN
  IF r.err # Nil THEN r
  ELSE IF p.token.Literal # l
       THEN [p |-> r.p, err |-> unexpectedLiteral(p.token)]
       ELSE r

\* One argument of a call p.all(...): a skip (lit FALSE) or a skipWithLiteral.
Step(t, l) == [t |-> t, l |-> l, lit |-> TRUE]
StepT(t) == [t |-> t, l |-> S_Empty, lit |-> FALSE]

stepA(p, s) == IF s.lit THEN skipWithLiteralA(p, s.t, s.l) ELSE skipA(p, s.t)

\* Parser.all over its arguments: Go evaluates every argument, in order,
\* before the call, so every skip runs; the first error is returned.
RECURSIVE allFromA(_, _, _, _)
allFromA(p, steps, i, first) ==
  IF i > Len(steps) THEN [p |-> p, err |-> first]
  ELSE LET r == stepA(p, steps[i]) IN
       IF r.err = Nil \/ first # Nil
       THEN allFromA(r.p, steps, i + 1, first)
       ELSE allFromA(r.p, steps, i + 1, r.err)

allA(p, steps) == allFromA(p, steps, 1, Nil)

----------------------------------------------------------------------------
(* Parser utilities of src/unnamed/part_000.  ls is the set of literals    *)
(* of the variadic argument (empty: any literal).                          *)

\* Parser.scan: the lexer's next token, whatever its type.
scanB(p) ==
  LET s == LexerScan(p.lexer) IN [p EXCEPT !.lexer = s.pos, !.token = s.tok]

\* Parser.next: does the current token have type t and one of the literals?
nextB(p, t, ls) ==
  /\ p.token.Type = t
  /\ (ls = {} \/ p.token.Literal \in ls)

\* Parser.consume: the current token, scanned past when it is as wanted.
consumeB(p, t, ls) ==
  IF nextB(p, t, ls)
  THEN [p |-> scanB(p), tok |-> p.token, err |-> Nil]
  ELSE [p |-> p, tok |-> p.token, err |-> unexpected(p.token)]

\* Parser.expect: checks the current token and leaves it in place.
expectB(p, t, ls) == IF nextB(p, t, ls) THEN Nil ELSE unexpected(p.token)

\* Parser.skip: consume, the error dropped.
skipB(p, t, ls) ==
  LET r == consumeB(p, t, ls) IN [p |-> r.p, ok |-> r.err = Nil]

StepB(t, ls) == [t |-> t, ls |-> ls]

\* Parser.expectAll over expectFn closures: run in order up to the first error.
RECURSIVE expectAllFromB(_, _, _)
expectAllFromB(p, steps, i) ==
  IF i > Len(steps) THEN Nil
  ELSE LET e == expectB(p, steps[i].t, steps[i].ls) IN
       IF e # Nil THEN e ELSE expectAllFromB(p, steps, i + 1)

expectAllB(p, steps) == expectAllFromB(p, steps, 1)

----------------------------------------------------------------------------
(* The Output under construction.                                          *)

RotationNormal == "RotationNormal"
RotationLeft == "RotationLeft"
RotationInverted == "RotationInverted"
RotationRight == "RotationRight"
ReflectionNone == "ReflectionNone"
ReflectionXAxis == "ReflectionXAxis"
ReflectionYAxis == "ReflectionYAxis"

ZeroResolution == [Width |-> 0, Height |-> 0]

\* parseOutput's fresh Output: the zero value, an empty property map, and
\* the default rotation and reflection.
NewOutput ==
  [Name |-> S_Empty, IsConnected |-> FALSE, IsPrimary |-> FALSE,
   IsEnabled |-> FALSE, Resolution |-> ZeroResolution,
   Position |-> [OffsetX |-> 0, OffsetY |-> 0],
   Rotation |-> RotationNormal, Reflection |-> ReflectionNone,
   Dimensions |-> [Width |-> 0, Height |-> 0],
   Properties |-> << >>, Modes |-> << >>]

\* What a production returns: the parser state, the Output and the error.
Ret(p, o, e) == [p |-> p, o |-> o, err |-> e]

SkipOn(p) == [p EXCEPT !.skipWS = TRUE]

\* The legend "(normal left inverted right x axis y axis)".
LegendLiterals ==
  <<S_normal, S_left, S_inverted, S_right, S_x, S_axis, S_y, S_axis>>

\* The screen line: Screen 0: minimum 8 x 8, current 8 x 8, maximum 8 x 8.
\* TRUE marks a position whose literal is checked.
ScreenSteps ==
  <<Step(TokenTypeName, S_Screen), StepT(TokenTypeIntValue),
    StepT(TokenTypePunctuator),
    Step(TokenTypeName, S_minimum), StepT(TokenTypeIntValue),
    Step(TokenTypeName, S_x), StepT(TokenTypeIntValue),
    StepT(TokenTypePunctuator),
    Step(TokenTypeName, S_current), StepT(TokenTypeIntValue),
    Step(TokenTypeName, S_x), StepT(TokenTypeIntValue),
    StepT(TokenTypePunctuator),
    Step(TokenTypeName, S_maximum), StepT(TokenTypeIntValue),
    Step(TokenTypeName, S_x), StepT(TokenTypeIntValue),
    StepT(TokenTypeLineTerminator)>>

KeySteps ==
  <<Step(TokenTypePunctuator, S_LParen)>>
  \o [i \in 1..8 |-> Step(TokenTypeName, LegendLiterals[i])]
  \o <<Step(TokenTypePunctuator, S_RParen)>>

\* The same argument lists as part_000 passes them to expectFn.
ToStepsB(steps) ==
  [i \in 1..Len(steps) |->
     StepB(steps[i].t, IF steps[i].lit THEN {steps[i].l} ELSE {})]

----------------------------------------------------------------------------
(* The productions of src/xrandr/parser.go.                                *)

\* Parser.parseScreen
parseScreenA(p) == allA(p, ScreenSteps)

\* Parser.parseOutputName
parseOutputNameA(p, o) ==
  LET r == expectA(SkipOn(p), TokenTypeName) IN
  IF r.err # Nil THEN Ret(r.p, o, r.err)
  ELSE Ret(r.p, [o EXCEPT !.Name = r.tok.Literal], Nil)

\* Parser.parseOutputStatus
parseOutputStatusA(p, o) ==
  LET p1 == scanA(SkipOn(p))
      conn == p1.token.Literal = S_connected
      p2 == IF conn THEN scanA(p1) ELSE p1
      o2 == IF conn THEN [o EXCEPT !.IsConnected = TRUE] ELSE o
      prim == p2.token.Type = TokenTypeName /\ p2.token.Literal = S_primary
  IN IF prim THEN Ret(scanA(p2), [o2 EXCEPT !.IsPrimary = TRUE], Nil)
             ELSE Ret(p2, o2, Nil)

\* Parser.parseResolution
parseResolutionA(literal) ==
  LET matches == resolutionPatternA(literal) IN
  IF Len(matches) # 3 THEN [isRes |-> FALSE, res |-> ZeroResolution]
  ELSE [isRes |-> TRUE,
        res |-> [Width |-> ParseUint(matches[2]),
                 Height |-> ParseUint(matches[3])]]

\* Parser.parseResolutionAndPosition
parseResolutionAndPositionA(p, o) ==
  LET p0 == SkipOn(p)
      r == parseResolutionA(p0.token.Literal)
      o1 == [o EXCEPT !.IsEnabled = TRUE, !.Resolution = r.res]
      p1 == scanA(p0)
      s1 == skipWithLiteralA(p1, TokenTypePunctuator, S_Plus)
      e1 == expectA(s1.p, TokenTypeIntValue)
      s2 == skipWithLiteralA(e1.p, TokenTypePunctuator, S_Plus)
      e2 == expectA(s2.p, TokenTypeIntValue)
  IN
  IF p0.token.Type # TokenTypeName \/ ~r.isRes THEN Ret(p0, o, Nil)
  ELSE IF s1.err # Nil THEN Ret(s1.p, o1, s1.err)
  ELSE IF e1.err # Nil THEN Ret(e1.p, o1, e1.err)
  ELSE IF s2.err # Nil THEN Ret(s2.p, o1, s2.err)
  ELSE IF e2.err # Nil THEN Ret(e2.p, o1, e2.err)
  ELSE Ret(e2.p,
           [o1 EXCEPT !.Position = [OffsetX |-> ParseUint(e1.tok.Literal),
                                    OffsetY |-> ParseUint(e2.tok.Literal)]],
           Nil)

\* The rotation a keyword names, "" for any other literal (found = false).
RotationOf(l) ==
  CASE l = S_normal -> RotationNormal
    [] l = S_left -> RotationLeft
    [] l = S_inverted -> RotationInverted
    [] l = S_right -> RotationRight
    [] OTHER -> ""

\* Parser.parseOutputRotationAndReflection
parseOutputRotationAndReflectionA(p, o) ==
  LET p0 == SkipOn(p)
      found == p0.token.Type = TokenTypeName /\ RotationOf(p0.token.Literal) # ""
      o1 == IF found THEN [o EXCEPT !.Rotation = RotationOf(p0.token.Literal)]
                     ELSE o
      p1 == IF found THEN scanA(p0) ELSE p0
      foundX == p1.token.Type = TokenTypeName /\ p1.token.Literal = S_x
      foundY == p1.token.Type = TokenTypeName /\ p1.token.Literal = S_y
      p2 == scanA(p1)
      axis == p2.token.Type = TokenTypeName /\ p2.token.Literal = S_axis
  IN
  IF ~(foundX \/ foundY) THEN Ret(p1, o1, Nil)
  ELSE IF ~axis THEN Ret(p2, o1, Nil)
  ELSE Ret(scanA(p2),
           [o1 EXCEPT !.Reflection =
                        IF foundY THEN ReflectionYAxis ELSE ReflectionXAxis],
           Nil)

\* Parser.parseOutputRotationAndReflectionKey
parseOutputRotationAndReflectionKeyA(p, o) ==
  LET r == allA(SkipOn(p), KeySteps) IN Ret(r.p, o, r.err)

\* Parser.parseOutputDimension: a Name that is not digits-mm yields 0 and the
\* err of expect, which is nil at that point.
parseOutputDimensionA(p) ==
  LET r == expectA(SkipOn(p), TokenTypeName)
      matches == dimensionPattern(r.tok.Literal)
  IN
  IF r.err # Nil THEN [p |-> r.p, dim |-> 0, err |-> r.err]
  ELSE IF Len(matches) # 2 THEN [p |-> r.p, dim |-> 0, err |-> r.err]
  ELSE [p |-> r.p, dim |-> ParseUint(matches[2]), err |-> Nil]

\* A parseOutputDimensions that leaves the line terminator of an output line
\* without dimensions as the current token.
parseOutputDimensionsKeepLTA(p, o) ==
  LET p0 == SkipOn(p)
      x == parseOutputDimensionA(p0)
      s == skipWithLiteralA(x.p, TokenTypeName, S_x)
      y == parseOutputDimensionA(s.p)
  IN
  IF p0.token.Type # TokenTypeName THEN Ret(p0, o, Nil)
  ELSE IF x.err # Nil THEN Ret(x.p, o, x.err)
  ELSE IF s.err # Nil THEN Ret(s.p, o, s.err)
  ELSE IF y.err # Nil THEN Ret(y.p, o, y.err)
  ELSE Ret(y.p, [o EXCEPT !.Dimensions = [Width |-> x.dim, Height |-> y.dim]],
           Nil)

\* Parser.parseOutputDimensions
parseOutputDimensionsA(p, o) ==
  LET p0 == SkipOn(p)
      x == parseOutputDimensionA(p0)
      s == skipWithLiteralA(x.p, TokenTypeName, S_x)
      y == parseOutputDimensionA(s.p)
  IN
  IF p0.token.Type # TokenTypeName
  THEN IF p0.token.Type = TokenTypeLineTerminator
       THEN Ret(scanA(p0), o, Nil) ELSE Ret(p0, o, Nil)
  ELSE IF x.err # Nil THEN Ret(x.p, o, x.err)
  ELSE IF s.err # Nil THEN Ret(s.p, o, s.err)
  ELSE IF y.err # Nil THEN Ret(y.p, o, y.err)
  ELSE Ret(y.p, [o EXCEPT !.Dimensions = [Width |-> x.dim, Height |-> y.dim]],
           Nil)

\* The rate loop of Parser.parseModes: FloatValue tokens with their marks.
RECURSIVE ratesA(_, _)
ratesA(p, rates) ==
  IF p.token.Type # TokenTypeFloatValue THEN [p |-> p, rates |-> rates]
  ELSE LET p1 == scanA(p)
           cur == p1.token.Type = TokenTypePunctuator
                  /\ p1.token.Literal = S_Star
           p2 == IF cur THEN scanA(p1) ELSE p1
           pref == p2.token.Type = TokenTypePunctuator
                   /\ p2.token.Literal = S_Plus
           p3 == IF pref THEN scanA(p2) ELSE p2
       IN ratesA(p3, Append(rates, [Rate |-> ParseFloat(p.token.Literal),
                                    IsCurrent |-> cur, IsPreferred |-> pref]))

\* The mode loop of Parser.parseModes: a Name that is no resolution is an error.
RECURSIVE modesA(_, _)
modesA(p, o) ==
  IF p.token.Type # TokenTypeName THEN Ret(p, o, Nil)
  ELSE LET r == parseResolutionA(p.token.Literal)
           rs == ratesA(scanA(p), << >>)
       IN IF ~r.isRes THEN Ret(p, o, expectedResolution)
          ELSE modesA(rs.p,
                      [o EXCEPT !.Modes =
                         Append(@, [Resolution |-> r.res, Rates |-> rs.rates])])

\* Parser.parseModes
parseModesA(p, o) ==
  LET p0 == SkipOn(p) IN
  IF p0.token.Type # TokenTypeWhiteSpace /\ p0.token.Literal # S_Space
  THEN Ret(p0, o, Nil)
  ELSE modesA(scanA(p0), o)

----------------------------------------------------------------------------
(* The productions of src/unnamed/part_000.                                *)

\* Parser.parseScreen
parseScreenB(p) == [p |-> p, err |-> expectAllB(p, ToStepsB(ScreenSteps))]

\* Parser.parseOutputName
parseOutputNameB(p, o) ==
  LET r == consumeB(SkipOn(p), TokenTypeName, {}) IN
  IF r.err # Nil THEN Ret(r.p, o, r.err)
  ELSE Ret(r.p, [o EXCEPT !.Name = r.tok.Literal], Nil)

\* Parser.parseOutputStatus
parseOutputStatusB(p, o) ==
  LET r == consumeB(SkipOn(p), TokenTypeName, {S_connected, S_disconnected})
      o1 == IF r.err = Nil
            THEN [o EXCEPT !.IsConnected = (r.tok.Literal = S_connected)]
            ELSE o
      s == skipB(r.p, TokenTypeName, {S_primary})
  IN Ret(s.p, IF s.ok THEN [o1 EXCEPT !.IsPrimary = TRUE] ELSE o1, Nil)

\* Parser.parseResolution
parseResolutionB(literal) ==
  LET matches == resolutionPatternB(literal) IN
  IF Len(matches) # 3 THEN [isRes |-> FALSE, res |-> ZeroResolution]
  ELSE [isRes |-> TRUE,
        res |-> [Width |-> ParseUint(matches[2]),
                 Height |-> ParseUint(matches[3])]]

\* Parser.parseResolutionAndPosition
parseResolutionAndPositionB(p, o) ==
  LET p0 == SkipOn(p)
      r == parseResolutionB(p0.token.Literal)
      o1 == [o EXCEPT !.IsEnabled = TRUE, !.Resolution = r.res]
      p1 == scanB(p0)
      x1 == expectB(p1, TokenTypePunctuator, {S_Plus})
      c1 == consumeB(p1, TokenTypeIntValue, {})
      x2 == expectB(c1.p, TokenTypePunctuator, {S_Plus})
      c2 == consumeB(c1.p, TokenTypeIntValue, {})
  IN
  IF ~nextB(p0, TokenTypeName, {}) \/ ~r.isRes THEN Ret(p0, o, Nil)
  ELSE IF x1 # Nil THEN Ret(p1, o1, x1)
  ELSE IF c1.err # Nil THEN Ret(c1.p, o1, c1.err)
  ELSE IF x2 # Nil THEN Ret(c1.p, o1, x2)
  ELSE IF c2.err # Nil THEN Ret(c2.p, o1, c2.err)
  ELSE Ret(c2.p,
           [o1 EXCEPT !.Position = [OffsetX |-> ParseUint(c1.tok.Literal),
                                    OffsetY |-> ParseUint(c2.tok.Literal)]],
           Nil)

\* Parser.parseOutputRotationAndReflection
parseOutputRotationAndReflectionB(p, o) ==
  LET r == consumeB(SkipOn(p), TokenTypeName,
                    {S_normal, S_left, S_inverted, S_right})
      o1 == IF r.err = Nil THEN [o EXCEPT !.Rotation = RotationOf(r.tok.Literal)]
                           ELSE o
      p1 == IF r.err = Nil THEN scanB(r.p) ELSE r.p
      a == consumeB(p1, TokenTypeName, {S_x, S_y})
      e == expectB(a.p, TokenTypeName, {S_axis})
  IN
  IF a.err # Nil THEN Ret(a.p, o1, Nil)
  ELSE IF e # Nil THEN Ret(a.p, o1, e)
  ELSE Ret(a.p,
           [o1 EXCEPT !.Reflection =
                        IF a.tok.Literal = S_x THEN ReflectionXAxis
                                               ELSE ReflectionYAxis],
           Nil)

\* Parser.parseOutputRotationAndReflectionKey
parseOutputRotationAndReflectionKeyB(p, o) ==
  LET p0 == SkipOn(p) IN
  IF p0.token.Type # TokenTypePunctuator /\ p0.token.Literal = S_LParen
  THEN Ret(p0, o, Nil)
  ELSE Ret(p0, o, expectAllB(p0, ToStepsB(KeySteps)))

\* Parser.parseOutputDimension
parseOutputDimensionB(p) ==
  LET r == consumeB(SkipOn(p), TokenTypeName, {})
      matches == dimensionPattern(r.tok.Literal)
  IN
  IF r.err # Nil THEN [p |-> r.p, dim |-> 0, err |-> r.err]
  ELSE IF Len(matches) # 2 THEN [p |-> r.p, dim |-> 0, err |-> r.err]
  ELSE [p |-> r.p, dim |-> ParseUint(matches[2]), err |-> Nil]

\* skip(TokenTypeLineTerminator) followed, on success, by p.skipWS = false.
SkipLineTerminatorB(p) ==
  LET s == skipB(p, TokenTypeLineTerminator, {}) IN
  IF s.ok THEN [s.p EXCEPT !.skipWS = FALSE] ELSE s.p

\* Parser.parseOutputDimensions
parseOutputDimensionsB(p, o) ==
  LET p0 == SkipOn(p)
      x == parseOutputDimensionB(p0)
      e == expectB(x.p, TokenTypeName, {S_x})
      y == parseOutputDimensionB(x.p)
  IN
  IF ~nextB(p0, TokenTypeName, {}) THEN Ret(SkipLineTerminatorB(p0), o, Nil)
  ELSE IF x.err # Nil THEN Ret(x.p, o, x.err)
  ELSE IF e # Nil THEN Ret(x.p, o, e)
  ELSE IF y.err # Nil THEN Ret(y.p, o, y.err)
  ELSE Ret(SkipLineTerminatorB(y.p),
           [o EXCEPT !.Dimensions = [Width |-> x.dim, Height |-> y.dim]],
           Nil)

\* The rate loop of Parser.parseModes.
RECURSIVE ratesB(_, _)
ratesB(p, rates) ==
  IF ~nextB(p, TokenTypeFloatValue, {}) THEN [p |-> p, rates |-> rates]
  ELSE LET cur == skipB(scanB(p), TokenTypePunctuator, {S_Star})
           pref == skipB(cur.p, TokenTypePunctuator, {S_Plus})
       IN ratesB(pref.p, Append(rates, [Rate |-> ParseFloat(p.token.Literal),
                                        IsCurrent |-> cur.ok,
                                        IsPreferred |-> pref.ok]))

\* The mode loop of Parser.parseModes: a Name that is no resolution ends the
\* list, the token left in place.
RECURSIVE modesB(_, _)
modesB(p, o) ==
  IF p.token.Type # TokenTypeName THEN Ret(p, o, Nil)
  ELSE LET r == parseResolutionB(p.token.Literal)
           rs == ratesB(scanB(p), << >>)
           p1 == skipB(rs.p, TokenTypeLineTerminator, {}).p
       IN IF ~r.isRes THEN Ret(p, o, Nil)
          ELSE modesB(p1,
                      [o EXCEPT !.Modes =
                         Append(@, [Resolution |-> r.res, Rates |-> rs.rates])])

\* Parser.parseModes
parseModesB(p, o) ==
  LET p0 == SkipOn(p) IN
  IF p0.token.Type # TokenTypeWhiteSpace /\ p0.token.Literal # S_Space
  THEN Ret(p0, o, Nil)
  ELSE modesB(scanB(p0), o)

----------------------------------------------------------------------------
(* The token streams the parser is run on.                                 *)

N(l) == Tok(TokenTypeName, l)
I(l) == Tok(TokenTypeIntValue, l)
F(l) == Tok(TokenTypeFloatValue, l)
Pu(l) == Tok(TokenTypePunctuator, l)
Sp == Tok(TokenTypeWhiteSpace, S_Space)
Sp2 == Tok(TokenTypeWhiteSpace, S_Spaces2)
Sp5 == Tok(TokenTypeWhiteSpace, S_Spaces5)
Tab == Tok(TokenTypeWhiteSpace, S_Tab)
LT == Tok(TokenTypeLineTerminator, S_Newline)

\* The sequences over set S of length at most n.
SeqsUpTo(S, n) == UNION {[1..k -> S] : k \in 0..n}

\* The concatenation of a sequence of sequences.
RECURSIVE Flatten(_)
Flatten(ss) == IF Len(ss) = 0 THEN << >> ELSE Head(ss) \o Flatten(Tail(ss))

\* s with its i-th element replaced by t.
Replace(s, i, t) == [s EXCEPT ![i] = t]

\* "Screen 0: minimum 8 x 8, current 8 x 8, maximum 8 x 8" and a line
\* terminator, white space left out.
GoodHeader ==
  <<N(S_Screen), I(S_N0), Pu(S_Colon),
    N(S_minimum), I(S_N8), N(S_x), I(S_N8), Pu(S_Comma),
    N(S_current), I(S_N8), N(S_x), I(S_N8), Pu(S_Comma),
    N(S_maximum), I(S_N8), N(S_x), I(S_N8), LT>>

\* The same line with the white space tokens of the text.
SpacedHeader ==
  <<N(S_Screen), Sp, I(S_N0), Pu(S_Colon), Sp,
    N(S_minimum), Sp, I(S_N8), Sp, N(S_x), Sp, I(S_N8), Pu(S_Comma), Sp,
    N(S_current), Sp, I(S_N8), Sp, N(S_x), Sp, I(S_N8), Pu(S_Comma), Sp,
    N(S_maximum), Sp, I(S_N8), Sp, N(S_x), Sp, I(S_N8), LT>>

\* "(normal left inverted right x axis y axis)"
Legend ==
  <<Pu(S_LParen), N(S_normal), Sp, N(S_left), Sp, N(S_inverted), Sp,
    N(S_right), Sp, N(S_x), Sp, N(S_axis), Sp, N(S_y), Sp, N(S_axis),
    Pu(S_RParen)>>

\* "1920x1080+0+0"
Geometry == <<N(S_Res1920x1080), Pu(S_Plus), I(S_N0), Pu(S_Plus), I(S_N0)>>

\* "eDP-1 connected primary 1920x1080+0+0 normal (...) 310mm x 170mm"
LineEDP ==
  <<N(S_eDP1), Sp, N(S_connected), Sp, N(S_primary), Sp>> \o Geometry
  \o <<Sp, N(S_normal), Sp>> \o Legend
  \o <<Sp, N(S_Dim310mm), Sp, N(S_x), Sp, N(S_Dim170mm)>>

\* "HDMI-1 disconnected (...)"
LineHDMI == <<N(S_HDMI1), Sp, N(S_disconnected), Sp>> \o Legend

\* "HDMI-1 connected (...)": connected, no mode set.
LineConnectedOff == <<N(S_HDMI1), Sp, N(S_connected), Sp>> \o Legend

\* "eDP-1 disconnected (...)"
LineEDPOff == <<N(S_eDP1), Sp, N(S_disconnected), Sp>> \o Legend

\* "HDMI-1 disconnected primary (...)"
LinePrimaryOff ==
  <<N(S_HDMI1), Sp, N(S_disconnected), Sp, N(S_primary), Sp>> \o Legend

\* "HDMI-1 disconnected (...) 310cm x 170mm": a width that is no digits-mm.
LineBadWidth ==
  LineHDMI \o <<Sp, N(S_Dim310cm), Sp, N(S_x), Sp, N(S_Dim170mm)>>

\* "HDMI-1 disconnected (...) 310mm x 310cm": a height that is no digits-mm.
LineBadHeight ==
  LineHDMI \o <<Sp, N(S_Dim310mm), Sp, N(S_x), Sp, N(S_Dim310cm)>>

\* "eDP-1 connected 1920x1080+0+0 left x axis (...)"
LineReflected ==
  <<N(S_eDP1), Sp, N(S_connected), Sp>> \o Geometry
  \o <<Sp, N(S_left), Sp, N(S_x), Sp, N(S_axis), Sp>> \o Legend

\* A tab, "Brightness: 1.000000" and a line terminator.
PropBrightness == <<Tab, N(S_Brightness), Pu(S_Colon), Sp, F(S_F1000000), LT>>

\* A tab, "Gamma : 8  " and a line terminator: white space around name and value.
PropGamma == <<Tab, N(S_Gamma), Sp, Pu(S_Colon), Sp, I(S_N8), Sp2, LT>>

\* A tab, "EDID: " and a line terminator: the value follows on the next lines.
PropEDID == <<Tab, N(S_EDID), Pu(S_Colon), Sp, LT>>

\* Two tabs and a run of hexadecimal digits: a continuation line.
Cont00ff == <<Tab, Tab, N(S_Hex00ff), LT>>
Cont1a2b == <<Tab, Tab, N(S_Hex1a2b), Sp, N(S_Hex00ff), LT>>

\* "     1920x1080i     60.00*+  59.94  "
ModeInterlaced ==
  <<Sp5, N(S_Res1920x1080i), Sp5, F(S_F6000), Pu(S_Star), Pu(S_Plus), Sp2,
    F(S_F5994), Sp2>>

\* "     1920x1080     60.00*+  59.94"
ModeProgressive ==
  <<Sp5, N(S_Res1920x1080), Sp5, F(S_F6000), Pu(S_Star), Pu(S_Plus), Sp2,
    F(S_F5994)>>

\* "     1280x720  59.94+"
ModeSmall == <<Sp5, N(S_Res1280x720), Sp2, F(S_F5994), Pu(S_Plus)>>

\* The interlaced mode line without the white space between its tokens.
ModeDense ==
  <<Sp5, N(S_Res1920x1080i), F(S_F6000), Pu(S_Star), Pu(S_Plus), F(S_F5994)>>

\* "     1280x720" "59.94" "+" with neither white space nor a line terminator
\* after the resolution: what follows it follows the last rate directly.
ModeTight == <<Sp5, N(S_Res1280x720), F(S_F5994), Pu(S_Plus)>>

\* Tokens put in the place of a token of the screen line.
BadTokens == {N(S_eDP1), I(S_N0), LT, Pu(S_Colon)}

\* Screen lines: one token replaced, cut short, or with a token in front.
Headers ==
  {Replace(GoodHeader, i, t) : i \in 1..Len(GoodHeader), t \in BadTokens}
  \cup {SubSeq(GoodHeader, 1, i) : i \in 0..Len(GoodHeader)}
  \cup {<<t>> \o GoodHeader : t \in {LT, Sp, N(S_Screen)}}
  \cup {SpacedHeader}

HeaderDocs == {h \o t : h \in Headers, t \in {<< >>, LineHDMI, LineHDMI \o <<LT>>}}

\* The text of one output: its line, then property and mode lines.
Blocks ==
  {LineEDP, LineEDP \o <<LT>>, LineHDMI, LineHDMI \o <<LT>>,
   LineConnectedOff \o <<LT>>, LineEDPOff \o <<LT>>,
   LinePrimaryOff \o <<LT>>, LineReflected \o <<LT>>,
   LineBadWidth, LineBadHeight,
   LineHDMI \o <<LT>> \o PropBrightness,
   LineHDMI \o <<LT>> \o PropEDID \o Cont00ff,
   LineHDMI \o <<LT>> \o ModeProgressive \o <<LT>>,
   LineEDP \o <<LT>> \o PropBrightness \o ModeProgressive \o <<LT>>}

OutputDocs ==
  {SpacedHeader \o Flatten(bs) : bs \in SeqsUpTo(Blocks, MaxOutputs)}
  \cup {GoodHeader \o b : b \in Blocks}

StatusAlphabet ==
  {N(S_connected), N(S_disconnected), N(S_primary), N(S_Res1920x1080),
   Pu(S_LParen), Sp}

RotationAlphabet ==
  {N(S_normal), N(S_left), N(S_inverted), N(S_right), N(S_x), N(S_y),
   N(S_axis), Pu(S_LParen)}

DimensionAlphabet ==
  {N(S_Dim310mm), N(S_Dim170mm), N(S_Dim310cm), N(S_x), LT, Tab}

PropLines == {PropBrightness, PropGamma, PropEDID, Cont00ff, Cont1a2b}

ModeLines ==
  {ModeInterlaced \o <<LT>>, ModeProgressive \o <<LT>>, ModeSmall \o <<LT>>,
   ModeDense \o <<LT>>, ModeTight}

\* What may follow a window of lines: nothing, or the start of other text.
PropTails == {<< >>, <<LT>>, ModeSmall \o <<LT>>, LineHDMI}
ModeTails == {<< >>, LineHDMI, <<Sp5>> \o LineHDMI, ModeInterlaced, ModeDense}

\* A property line and the continuation lines under it.
PropHeads == {PropEDID, PropBrightness}
ContLines == {Cont00ff, Cont1a2b}

PropStreams ==
  {Flatten(ls) \o t : ls \in SeqsUpTo(PropLines, MaxLines), t \in PropTails}
  \cup {h \o Flatten(cs) \o t :
          h \in PropHeads, cs \in SeqsUpTo(ContLines, MaxLines), t \in PropTails}

\* Streams at parseProperty, which is called past the tab of a property line:
\* property blocks that end at any of their tokens.
PropertyBlocks ==
  {PropBrightness, PropGamma, PropEDID \o Cont00ff, PropBrightness \o Cont1a2b}

PropertyStreams ==
  UNION {{SubSeq(s, 2, k) : k \in 1..Len(s)} : s \in PropertyBlocks}

ModeStreams ==
  {Flatten(ls) \o t : ls \in SeqsUpTo(ModeLines, MaxLines), t \in ModeTails}

Entries ==
  {"ParseProps", "parseOutputName", "parseOutputStatus",
   "parseResolutionAndPosition", "parseOutputRotationAndReflection",
   "parseOutputRotationAndReflectionKey", "parseOutputDimensions",
   "parseProperties", "parseProperty", "parseModes"}

\* The token streams a run that enters at e is given.  For a production the
\* stream starts at the parser's current token.
Streams(e) ==
  CASE e = "ParseProps" -> HeaderDocs \cup OutputDocs
    [] e = "parseOutputName" -> SeqsUpTo({N(S_eDP1), Sp, LT}, 2)
    [] e = "parseOutputStatus" -> SeqsUpTo(StatusAlphabet, MaxSnippet)
    [] e = "parseResolutionAndPosition" ->
         {Geometry, Geometry \o <<Sp, N(S_normal)>>,
          <<N(S_Res1920x1080i)>> \o Tail(Geometry),
          <<N(S_Res1920x1080), I(S_N0), I(S_N0)>>,
          <<N(S_Res1920x1080), Pu(S_Plus), Pu(S_Plus)>>,
          <<N(S_Res1920x1080), Pu(S_Plus), I(S_N0), Pu(S_Star), I(S_N0)>>,
          <<N(S_normal)>>, Legend, << >>}
    [] e = "parseOutputRotationAndReflection" ->
         SeqsUpTo(RotationAlphabet, MaxSnippet)
    [] e = "parseOutputRotationAndReflectionKey" ->
         {Legend, Legend \o <<LT>>, Tail(Legend), <<LT>>, << >>}
    [] e = "parseOutputDimensions" -> SeqsUpTo(DimensionAlphabet, MaxSnippet)
    [] e = "parseProperties" -> PropStreams
    [] e = "parseProperty" -> PropertyStreams
    [] e = "parseModes" -> ModeStreams


----------------------------------------------------------------------------
(* The i3 event thread: Start, Stop and the relay goroutine.               *)

\* make(chan event.Event, 1)
MsgChCap == 1

StartupEvent == [IsStartup |-> TRUE]
OutputEvent == [IsStartup |-> FALSE]

\* NewThread: the channel is empty, ctx, cfn and rcvr are not set.  No
\* goroutine runs yet; up to MaxEvents i3 events are to arrive.
ThreadInit ==
  /\ ctx = "nil"
  /\ cfn = FALSE
  /\ msgCh = << >>
  /\ rcvr = "nil"
  /\ events \in 0..MaxEvents
  /\ late = FALSE
  /\ startPc = "idle"
  /\ stopPc = "idle"
  /\ relayPc = "none"

\* A send on msgCh blocks while the buffer is full.
CanSend == Len(msgCh) < MsgChCap

\* Start is called: t.logger.Info("thread started").
StartCall ==
  /\ startPc = "idle"
  /\ startPc' = "send"
  /\ UNCHANGED <<ctx, cfn, msgCh, rcvr, events, late, stopPc, relayPc>>
  /\ UNCHANGED parserVars

\* t.msgCh <- event.Event{IsStartup: true}
StartSend ==
  /\ startPc = "send"
  /\ CanSend
  /\ msgCh' = Append(msgCh, StartupEvent)
  /\ startPc' = "setCtx"
  /\ UNCHANGED <<ctx, cfn, rcvr, events, late, stopPc, relayPc>>
  /\ UNCHANGED parserVars

\* t.ctx, t.cfn = context.WithCancel(...): the field ctx is written ...
StartSetCtx ==
  /\ startPc = "setCtx"
  /\ ctx' = "live"
  /\ startPc' = "setCfn"
  /\ UNCHANGED <<cfn, msgCh, rcvr, events, late, stopPc, relayPc>>
  /\ UNCHANGED parserVars

\* ... and then the field cfn.
StartSetCfn ==
  /\ startPc = "setCfn"
  /\ cfn' = TRUE
  /\ startPc' = "subscribe"
  /\ UNCHANGED <<ctx, msgCh, rcvr, events, late, stopPc, relayPc>>
  /\ UNCHANGED parserVars

\* t.rcvr = i3.Subscribe(...); defer t.rcvr.Close(); go func() {...}()
StartSubscribe ==
  /\ startPc = "subscribe"
  /\ rcvr' = "open"
  /\ relayPc' = "next"
  /\ startPc' = "wait"
  /\ UNCHANGED <<ctx, cfn, msgCh, events, late, stopPc>>
  /\ UNCHANGED parserVars

\* <-t.ctx.Done(): Start goes on once the context is cancelled.
StartWait ==
  /\ startPc = "wait"
  /\ ctx = "cancelled"
  /\ startPc' = "return"
  /\ UNCHANGED <<ctx, cfn, msgCh, rcvr, events, late, stopPc, relayPc>>
  /\ UNCHANGED parserVars

\* t.logger.Info("thread stopped"); return nil, and the deferred
\* t.rcvr.Close().
StartReturn ==
  /\ startPc = "return"
  /\ rcvr' = "closed"
  /\ startPc' = "done"
  /\ UNCHANGED <<ctx, cfn, msgCh, events, late, stopPc, relayPc>>
  /\ UNCHANGED parserVars

\* Stop is called on another goroutine, once Start has been invoked.
StopCall ==
  /\ stopPc = "idle"
  /\ startPc # "idle"
  /\ stopPc' = "check"
  /\ UNCHANGED <<ctx, cfn, msgCh, rcvr, events, late, startPc, relayPc>>
  /\ UNCHANGED parserVars

\* if t.ctx != nil && t.cfn != nil { t.cfn() }; return nil.  Start writes the
\* two fields and Stop reads them without synchronisation: a read of a field
\* Start has written sees the value written or still nil.
StopCheck ==
  /\ stopPc = "check"
  /\ \E seesCtx \in {ctx # "nil", FALSE}, seesCfn \in {cfn, FALSE} :
       ctx' = IF seesCtx /\ seesCfn THEN "cancelled" ELSE ctx
  /\ stopPc' = "done"
  /\ UNCHANGED <<cfn, msgCh, rcvr, events, late, startPc, relayPc>>
  /\ UNCHANGED parserVars

\* for t.rcvr.Next(): an event arrives and Next returns true; late records
\* whether the context was cancelled before it arrived.
RelayNext ==
  /\ relayPc = "next"
  /\ events > 0
  /\ events' = events - 1
  /\ late' = (ctx = "cancelled")
  /\ relayPc' = "select"
  /\ UNCHANGED <<ctx, cfn, msgCh, rcvr, startPc, stopPc>>
  /\ UNCHANGED parserVars

\* t.rcvr.Next() returns false once the receiver is closed: the loop ends.
RelayClosed ==
  /\ relayPc = "next"
  /\ rcvr = "closed"
  /\ relayPc' = "exit"
  /\ UNCHANGED <<ctx, cfn, msgCh, rcvr, events, late, startPc, stopPc>>
  /\ UNCHANGED parserVars

\* select { case <-t.ctx.Done(): break; default: }: the break leaves the
\* select statement, not the for loop, so both cases go on to the send.
RelaySelect ==
  /\ relayPc = "select"
  /\ relayPc' = IF ctx = "cancelled" THEN "send" ELSE "send"
  /\ UNCHANGED <<ctx, cfn, msgCh, rcvr, events, late, startPc, stopPc>>
  /\ UNCHANGED parserVars

\* t.logger.Debugw(...); t.msgCh <- event.Event{}
RelaySend ==
  /\ relayPc = "send"
  /\ CanSend
  /\ msgCh' = Append(msgCh, OutputEvent)
  /\ relayPc' = "next"
  /\ UNCHANGED <<ctx, cfn, rcvr, events, late, startPc, stopPc>>
  /\ UNCHANGED parserVars

\* The holder of the receiving end NewThread returns takes an event.
Receive ==
  /\ msgCh # << >>
  /\ msgCh' = Tail(msgCh)
  /\ UNCHANGED <<ctx, cfn, rcvr, events, late, startPc, stopPc, relayPc>>
  /\ UNCHANGED parserVars

\* The steps of the goroutine that runs Start, of the one that runs Stop and
\* of the relay.
StartNext ==
  \/ StartCall \/ StartSend \/ StartSetCtx \/ StartSetCfn \/ StartSubscribe
  \/ StartWait \/ StartReturn

StopNext == StopCall \/ StopCheck

RelayStep == RelayNext \/ RelayClosed \/ RelaySelect \/ RelaySend

\* While the parser runs, no thread does; while the thread runs, no parser.
ThreadUnused == ThreadInit /\ events = 0

ParserUnused ==
  /\ variant = "A"
  /\ entry = "ParseProps"
  /\ input = << >>
  /\ lexer = 0
  /\ token = ZeroToken
  /\ skipWS = TRUE
  /\ output = NewOutput
  /\ props = << >>
  /\ err = Nil
  /\ name = S_Empty
  /\ value = S_Empty
  /\ stop = FALSE
  /\ pc = "done"

ThreadNext ==
  \/ StartCall
  \/ StartSend
  \/ StartSetCtx
  \/ StartSetCfn
  \/ StartSubscribe
  \/ StartWait
  \/ StartReturn
  \/ StopCall
  \/ StopCheck
  \/ RelayNext
  \/ RelayClosed
  \/ RelaySelect
  \/ RelaySend
  \/ Receive

\* Start and Stop are called on a Thread that NewThread has made.
ThreadStart == ParserUnused /\ ThreadInit

ThreadSpec == ThreadStart /\ [][ThreadNext]_vars

\* Every goroutine that can take a step is scheduled in the end; nothing is
\* assumed of the holder of the channel's receiving end.
ThreadLive ==
  /\ ThreadSpec
  /\ WF_vars(StartNext)
  /\ WF_vars(StopNext)
  /\ WF_vars(RelayStep)
----------------------------------------------------------------------------
(* The state machine: ParseProps run production by production, and         *)
(* parseProperty loop iteration by loop iteration.                         *)

\* The Parser's fields as one record.
P == [lexer |-> lexer, token |-> token, skipWS |-> skipWS]

\* parseOutput wraps the error of a production: "error parsing output ...: %v".
Wrap(e, fn) == IF entry = "ParseProps" THEN [e EXCEPT !.wrap = fn] ELSE e

\* Where the run goes when fn returns without error: to nxt when fn was
\* called by the run, to "done" when fn is the function the run entered.
After(fn, nxt) == IF entry = fn THEN "done" ELSE nxt

SetParser(p) ==
  /\ lexer' = p.lexer
  /\ token' = p.token
  /\ skipWS' = p.skipWS

\* Production fn has returned r.
Returns(fn, r, nxt) ==
  /\ SetParser(r.p)
  /\ output' = r.o
  /\ err' = IF r.err = Nil THEN Nil ELSE Wrap(r.err, fn)
  /\ pc' = IF r.err = Nil THEN After(fn, nxt) ELSE "done"
  /\ UNCHANGED <<variant, entry, input, props, name, value, stop>>

Init ==
  /\ variant \in {"A", "B"}
  /\ entry \in Entries
  /\ input \in Streams(entry)
  /\ IF entry = "ParseProps"
     THEN lexer = 0 /\ token = ZeroToken
     ELSE lexer = LexerScan(0).pos /\ token = LexerScan(0).tok
  /\ skipWS = (entry # "parseProperty")
  /\ output = NewOutput
  /\ props = << >>
  /\ err = Nil
  /\ name = S_Empty
  /\ value = S_Empty
  /\ stop = FALSE
  /\ pc = entry
  /\ ThreadUnused

\* ParseProps up to its loop: the first scan and the screen line.
ParsePropsScreenA(p) == parseScreenA(scanA(p))
ParsePropsScreenB(p) == parseScreenB(scanB(p))

ParseProps ==
  /\ pc = "ParseProps"
  /\ LET r == IF variant = "A" THEN ParsePropsScreenA(P)
                               ELSE ParsePropsScreenB(P)
     IN /\ SetParser(r.p)
        /\ err' = r.err
        /\ pc' = IF r.err = Nil THEN "parseOutputName" ELSE "done"
  /\ UNCHANGED <<variant, entry, input, output, props, name, value, stop>>
  /\ UNCHANGED threadVars

ParseOutputName ==
  /\ pc = "parseOutputName"
  /\ Returns("parseOutputName",
             IF variant = "A" THEN parseOutputNameA(P, NewOutput)
                              ELSE parseOutputNameB(P, NewOutput),
             "parseOutputStatus")
  /\ UNCHANGED threadVars

ParseOutputStatus ==
  /\ pc = "parseOutputStatus"
  /\ Returns("parseOutputStatus",
             IF variant = "A" THEN parseOutputStatusA(P, output)
                              ELSE parseOutputStatusB(P, output),
             "parseResolutionAndPosition")
  /\ UNCHANGED threadVars

ParseResolutionAndPosition ==
  /\ pc = "parseResolutionAndPosition"
  /\ Returns("parseResolutionAndPosition",
             IF variant = "A" THEN parseResolutionAndPositionA(P, output)
                              ELSE parseResolutionAndPositionB(P, output),
             "parseOutputRotationAndReflection")
  /\ UNCHANGED threadVars

ParseOutputRotationAndReflection ==
  /\ pc = "parseOutputRotationAndReflection"
  /\ Returns("parseOutputRotationAndReflection",
             IF variant = "A" THEN parseOutputRotationAndReflectionA(P, output)
                              ELSE parseOutputRotationAndReflectionB(P, output),
             "parseOutputRotationAndReflectionKey")
  /\ UNCHANGED threadVars

ParseOutputRotationAndReflectionKey ==
  /\ pc = "parseOutputRotationAndReflectionKey"
  /\ Returns("parseOutputRotationAndReflectionKey",
             IF variant = "A"
             THEN parseOutputRotationAndReflectionKeyA(P, output)
             ELSE parseOutputRotationAndReflectionKeyB(P, output),
             "parseOutputDimensions")
  /\ UNCHANGED threadVars

ParseOutputDimensions ==
  /\ pc = "parseOutputDimensions"
  /\ Returns("parseOutputDimensions",
             IF variant = "A" THEN parseOutputDimensionsA(P, output)
                              ELSE parseOutputDimensionsB(P, output),
             "parseProperties")
  /\ UNCHANGED threadVars

ParseModes ==
  /\ pc = "parseModes"
  /\ Returns("parseModes",
             IF variant = "A" THEN parseModesA(P, output)
                              ELSE parseModesB(P, output),
             "appendOutput")
  /\ UNCHANGED threadVars

\* The tail of ParseProps' loop: the Output is appended, and the loop ends at
\* the end of the input.
ParsePropsLoop ==
  /\ pc = "appendOutput"
  /\ props' = Append(props, output)
  /\ pc' = IF token.Type = TokenTypeEOF THEN "done" ELSE "parseOutputName"
  /\ UNCHANGED <<variant, entry, input, lexer, token, skipWS, output, err,
                 name, value, stop>>
  /\ UNCHANGED threadVars

----------------------------------------------------------------------------
(* parseProperties and parseProperty, one loop iteration per step.         *)

scan(p) == IF variant = "A" THEN scanA(p) ELSE scanB(p)

IsTab(tok) == tok.Type = TokenTypeWhiteSpace /\ tok.Literal = S_Tab

\* output.Properties[strings.TrimSpace(name)] = strings.TrimSpace(value)
StoreProperty(o, n, v) ==
  [o EXCEPT !.Properties = (TrimSpace(n) :> TrimSpace(v)) @@ @]

\* parseProperty (or parseProperties) fails with e.
PropertyFails(p, e) ==
  /\ SetParser(p)
  /\ err' = Wrap(e, "parseProperties")
  /\ pc' = "done"
  /\ UNCHANGED <<variant, entry, input, output, props, name, value, stop>>

\* parseProperty stores the property and returns st with the parser at p.
PropertyReturns(p, st) ==
  /\ SetParser(p)
  /\ output' = StoreProperty(output, name, value)
  /\ stop' = st
  /\ pc' = After("parseProperty", "propsLoop")
  /\ UNCHANGED <<variant, entry, input, props, err, name, value>>

\* parseProperties up to its loop.
\* A: skipWS is cleared.  B: skipWS is cleared and a tab is expected.
ParseProperties ==
  /\ pc = "parseProperties"
  /\ LET p == [P EXCEPT !.skipWS = FALSE]
         e == IF variant = "A" THEN Nil
              ELSE expectB(p, TokenTypeWhiteSpace, {S_Tab})
     IN IF e # Nil THEN PropertyFails(p, e)
        ELSE /\ SetParser(p)
             /\ pc' = IF variant = "A" THEN "propsLoop" ELSE "parseProperty"
             /\ UNCHANGED <<variant, entry, input, output, props, err, name,
                            value, stop>>
  /\ UNCHANGED threadVars

\* The test heading A's loop: does parseProperties return here?
propertiesEndA(tok) ==
  tok.Type # TokenTypeWhiteSpace /\ tok.Literal # S_Tab

\* The test ending B's loop: does parseProperties return here?
propertiesEndB(tok, st) == st \/ tok.Type # TokenTypeName

\* One turn of the loop of parseProperties.
\* A: return unless the token is white space or a tab; else scan and parse a
\*    property.  B: after a property, return on stop or on a non-Name.
PropsLoop ==
  /\ pc = "propsLoop"
  /\ LET end == IF variant = "A" THEN propertiesEndA(token)
                                 ELSE propertiesEndB(token, stop)
         p == IF variant = "A" /\ ~end THEN scanA(P) ELSE P
     IN /\ SetParser(p)
        /\ pc' = IF end THEN After("parseProperties", "parseModes")
                        ELSE "parseProperty"
  /\ UNCHANGED <<variant, entry, input, output, props, err, name, value, stop>>
  /\ UNCHANGED threadVars

\* parseProperty up to its name loop: the Name that starts the property.
ParseProperty ==
  /\ pc = "parseProperty"
  /\ LET r == IF variant = "A" THEN expectA(P, TokenTypeName)
                               ELSE consumeB(P, TokenTypeName, {})
     IN IF r.err # Nil THEN PropertyFails(r.p, r.err)
        ELSE /\ SetParser(r.p)
             /\ name' = r.tok.Literal
             /\ value' = S_Empty
             /\ stop' = FALSE
             /\ pc' = "propName"
             /\ UNCHANGED <<variant, entry, input, output, props, err>>
  /\ UNCHANGED threadVars

\* The ": " after the name: A skips both tokens, B only looks at the current
\* token twice.
colonSpaceA(p) ==
  allA(p, <<Step(TokenTypePunctuator, S_Colon),
            Step(TokenTypeWhiteSpace, S_Space)>>)

colonSpaceB(p) ==
  [p |-> p,
   err |-> expectAllB(p, <<StepB(TokenTypePunctuator, {S_Colon}),
                           StepB(TokenTypeWhiteSpace, {S_Space})>>)]

IsValueStart(tok) ==
  tok.Type \in {TokenTypeName, TokenTypeIntValue, TokenTypeFloatValue}

\* One turn of the name loop; at the ':' the loop ends, ": " is matched and
\* the kind of value is chosen.
PropName ==
  /\ pc = "propName"
  /\ IF token.Type = TokenTypePunctuator /\ token.Literal = S_Colon
     THEN LET r == IF variant = "A" THEN colonSpaceA(P) ELSE colonSpaceB(P) IN
          IF r.err # Nil THEN PropertyFails(r.p, r.err)
          ELSE IF r.p.token.Type = TokenTypeLineTerminator
          THEN /\ SetParser(r.p)
               /\ pc' = "valueLT"
               /\ UNCHANGED <<variant, entry, input, output, props, err, name,
                              value, stop>>
          ELSE IF IsValueStart(r.p.token)
          THEN /\ SetParser(r.p)
               /\ value' = value \o r.p.token.Literal
               /\ pc' = "valueInline"
               /\ UNCHANGED <<variant, entry, input, output, props, err, name,
                              stop>>
          ELSE PropertyReturns(r.p, stop)
     ELSE /\ name' = name \o token.Literal
          /\ SetParser(scan(P))
          /\ UNCHANGED <<variant, entry, input, output, props, err, value,
                         stop, pc>>
  /\ UNCHANGED threadVars

\* The head of a continuation loop: the line terminator is scanned past, and
\* two tabs lead into the line (pc inner); without the first tab the property
\* ends (B: with stop set), without the second it ends as well.
Continuation(inner) ==
  LET p1 == scan(P)
      p2 == scan(p1)
  IN IF ~IsTab(p1.token) THEN PropertyReturns(p1, variant = "B")
     ELSE IF ~IsTab(p2.token) THEN PropertyReturns(p2, stop)
     ELSE /\ SetParser(p2)
          /\ pc' = inner
          /\ UNCHANGED <<variant, entry, input, output, props, err, name,
                         value, stop>>

\* One token of a line: a line terminator ends the line (pc back), any other
\* token is added to the value when keep is set.
LineToken(back, keep) ==
  LET p1 == scan(P) IN
  /\ SetParser(p1)
  /\ pc' = IF p1.token.Type = TokenTypeLineTerminator THEN back ELSE pc
  /\ value' = IF p1.token.Type # TokenTypeLineTerminator /\ keep
              THEN value \o p1.token.Literal ELSE value
  /\ UNCHANGED <<variant, entry, input, output, props, err, name, stop>>

\* A value that starts after the line terminator: its continuation lines.
ValueLT ==
  /\ pc = "valueLT" /\ Continuation("valueLTLine")
  /\ UNCHANGED threadVars

\* The tokens of one such line are added to the value.
ValueLTLine ==
  /\ pc = "valueLTLine" /\ LineToken("valueLT", TRUE)
  /\ UNCHANGED threadVars

\* A value that starts on the property's line: the rest of that line.
ValueInline ==
  /\ pc = "valueInline" /\ LineToken("skipCont", TRUE)
  /\ UNCHANGED threadVars

\* The continuation lines after an inline value ...
SkipCont ==
  /\ pc = "skipCont" /\ Continuation("skipContLine")
  /\ UNCHANGED threadVars

\* Such a line with its tokens added to the value instead.
SkipContLineKept ==
  /\ pc = "skipContLine" /\ LineToken("skipCont", TRUE)
  /\ UNCHANGED threadVars

\* ... whose tokens are skipped.
SkipContLine ==
  /\ pc = "skipContLine" /\ LineToken("skipCont", FALSE)
  /\ UNCHANGED threadVars

Next ==
  \/ ParseProps
  \/ ParseOutputName
  \/ ParseOutputStatus
  \/ ParseResolutionAndPosition
  \/ ParseOutputRotationAndReflection
  \/ ParseOutputRotationAndReflectionKey
  \/ ParseOutputDimensions
  \/ ParseProperties
  \/ PropsLoop
  \/ ParseProperty
  \/ PropName
  \/ ValueLT
  \/ ValueLTLine
  \/ ValueInline
  \/ SkipCont
  \/ SkipContLine
  \/ ParseModes
  \/ ParsePropsLoop

Spec == Init /\ [][Next]_vars

----------------------------------------------------------------------------
(* Properties of ParseProps.                                               *)

IsWhiteSpace(t) == t.Type = TokenTypeWhiteSpace

\* s without its white space tokens.
Significant(s) == SelectSeq(s, LAMBDA t : ~IsWhiteSpace(t))

\* The tokens scan hands to the parser while skipWS is set: A skips white
\* space, B is handed every token.
SeenStream == IF variant = "A" THEN Significant(input) ELSE input

OfType(t) == [t |-> t, any |-> TRUE, l |-> S_Empty]
Lit(t, l) == [t |-> t, any |-> FALSE, l |-> l]

\* Name 'Screen', Int, Punctuator, 'minimum' Int 'x' Int, Punctuator,
\* 'current' Int 'x' Int, Punctuator, 'maximum' Int 'x' Int, LineTerminator.
HeaderSequence ==
  <<Lit(TokenTypeName, S_Screen), OfType(TokenTypeIntValue),
    OfType(TokenTypePunctuator),
    Lit(TokenTypeName, S_minimum), OfType(TokenTypeIntValue),
    Lit(TokenTypeName, S_x), OfType(TokenTypeIntValue), OfType(TokenTypePunctuator),
    Lit(TokenTypeName, S_current), OfType(TokenTypeIntValue),
    Lit(TokenTypeName, S_x), OfType(TokenTypeIntValue), OfType(TokenTypePunctuator),
    Lit(TokenTypeName, S_maximum), OfType(TokenTypeIntValue),
    Lit(TokenTypeName, S_x), OfType(TokenTypeIntValue),
    OfType(TokenTypeLineTerminator)>>

BeginsWithHeader(s) ==
  /\ Len(s) >= Len(HeaderSequence)
  /\ \A i \in 1..Len(HeaderSequence) :
       /\ s[i].Type = HeaderSequence[i].t
       /\ HeaderSequence[i].any \/ s[i].Literal = HeaderSequence[i].l

\* The input is a well-formed screen line followed by the tokens of body
\* (white space between tokens aside).
IsDocument(body) ==
  /\ BeginsWithHeader(Significant(input))
  /\ Significant(input) =
       SubSeq(Significant(input), 1, Len(HeaderSequence)) \o Significant(body)

ParsePropsDone == entry = "ParseProps" /\ pc = "done"

IsParseError(e) == e.msg \in {"unexpected token", "unexpected literal"}

\* C1: ParseProps of src/xrandr/parser.go never returns a partial result:
\* whenever it returns an error, the PropsOutput returned with it holds no
\* output, also when the error arises after an output was parsed.
C1_NoPartialResult ==
  (ParsePropsDone /\ variant = "A" /\ err # Nil) => Len(props) = 0

\* C2: in both variants, when the token stream does not begin with the screen
\* header sequence, ParseProps returns a parse error that reports line 1, and
\* no outputs.
C2_MissingHeaderFailsOnLine1 ==
  (ParsePropsDone /\ ~BeginsWithHeader(SeenStream)) =>
     /\ IsParseError(err)
     /\ err.line = 1
     /\ props = << >>

\* C2 witness: variant A has returned from a document whose screen line goes
\* wrong at its fourteenth token and which goes on with an output line.
C2_Witness ==
  /\ ParsePropsDone
  /\ variant = "A"
  /\ input = Replace(GoodHeader, 14, N(S_eDP1)) \o LineHDMI
  /\ err.line = 1

\* The Output the eDP-1 line of C3 describes.
EDPOutput ==
  [Name |-> S_eDP1, IsConnected |-> TRUE, IsPrimary |-> TRUE,
   IsEnabled |-> TRUE, Resolution |-> [Width |-> 1920, Height |-> 1080],
   Position |-> [OffsetX |-> 0, OffsetY |-> 0],
   Rotation |-> RotationNormal, Reflection |-> ReflectionNone,
   Dimensions |-> [Width |-> 310, Height |-> 170],
   Properties |-> << >>, Modes |-> << >>]

\* C3: in both variants, a well-formed screen header followed by the line
\* "eDP-1 connected primary 1920x1080+0+0 normal (...) 310mm x 170mm", a line
\* terminator and the end of the input yields no error and exactly the one
\* Output the line describes.
C3_EDPLine ==
  (ParsePropsDone /\ IsDocument(LineEDP \o <<LT>>)) =>
     /\ err = Nil
     /\ props = <<EDPOutput>>

\* The tokens of "<name> disconnected (normal left inverted right x axis y
\* axis)", a line terminator after them or not.
IsDisabledLine(body) ==
  \E n \in {S_HDMI1, S_eDP1}, t \in {<< >>, <<LT>>} :
     Significant(body) =
       <<N(n), N(S_disconnected)>> \o Significant(Legend) \o t

\* The tokens of the input after the screen line.
Body == SubSeq(Significant(input), Len(HeaderSequence) + 1,
               Len(Significant(input)))

\* C4: in src/xrandr/parser.go, a well-formed screen header followed by one
\* disabled output line without modes and properties (a line terminator after
\* it or not) yields no error and exactly one Output: not connected, not
\* primary, not enabled, resolution, position and dimensions zero, rotation
\* Normal, reflection None, no properties, no modes.
C4_DisabledLine ==
  (ParsePropsDone /\ variant = "A" /\ BeginsWithHeader(Significant(input))
     /\ IsDisabledLine(Body)) =>
     /\ err = Nil
     /\ Len(props) = 1
     /\ props[1].Name = Body[1].Literal
     /\ ~props[1].IsConnected /\ ~props[1].IsPrimary /\ ~props[1].IsEnabled
     /\ props[1].Resolution = [Width |-> 0, Height |-> 0]
     /\ props[1].Position = [OffsetX |-> 0, OffsetY |-> 0]
     /\ props[1].Dimensions = [Width |-> 0, Height |-> 0]
     /\ props[1].Rotation = RotationNormal
     /\ props[1].Reflection = ReflectionNone
     /\ props[1].Properties = << >>
     /\ props[1].Modes = << >>

\* C4 witness: variant A has returned one Output from the spaced document
\* whose HDMI-1 line ends in a line terminator.
C4_Witness ==
  /\ ParsePropsDone
  /\ variant = "A"
  /\ input = SpacedHeader \o LineHDMI \o <<LT>>
  /\ Len(props) = 1
  /\ props[1].Name = S_HDMI1

----------------------------------------------------------------------------
(* Properties of single productions.                                       *)

Entered(fn) == entry = fn /\ pc = "done"

\* The literals of a sequence of tokens, joined.
RECURSIVE Literals(_)
Literals(s) ==
  IF Len(s) = 0 THEN S_Empty ELSE Head(s).Literal \o Literals(Tail(s))

\* The index of the ':' of a property line.
ColonAt(line) ==
  CHOOSE k \in 1..Len(line) :
    /\ line[k] = Pu(S_Colon)
    /\ \A j \in 1..(k - 1) : line[j] # Pu(S_Colon)

\* Is line a tab, name tokens, ':', one space, inline value tokens and a line
\* terminator?
IsInlinePropertyLine(line) ==
  /\ Len(line) >= 6
  /\ line[1] = Tab
  /\ line[2].Type = TokenTypeName
  /\ line[Len(line)] = LT
  /\ \E k \in 3..(Len(line) - 3) :
       /\ line[k] = Pu(S_Colon)
       /\ line[k + 1] = Sp
       /\ IsValueStart(line[k + 2])
  /\ \A j \in 1..(Len(line) - 1) : line[j] # LT

\* The name and the value such a line states.
NameOfLine(line) == TrimSpace(Literals(SubSeq(line, 2, ColonAt(line) - 1)))
ValueOfLine(line) ==
  TrimSpace(Literals(SubSeq(line, ColonAt(line) + 2, Len(line) - 1)))

\* C5: in src/xrandr/parser.go, parseProperties entered on the tab of the
\* first of n >= 1 consecutive inline property lines returns without error
\* and has recorded every one of the lines, trimmed name to trimmed value.
C5_EveryPropertyLineRecorded ==
  \A ls \in SeqsUpTo({l \in PropLines : IsInlinePropertyLine(l)}, MaxLines) :
    (Entered("parseProperties") /\ variant = "A" /\ Len(ls) >= 1
       /\ input = Flatten(ls)) =>
       /\ err = Nil
       /\ \A i \in 1..Len(ls) :
            /\ NameOfLine(ls[i]) \in DOMAIN output.Properties
            /\ output.Properties[NameOfLine(ls[i])] = ValueOfLine(ls[i])

\* The OutputMode the line "1920x1080i     60.00*+  59.94  " describes.
InterlacedMode ==
  [Resolution |-> [Width |-> 1920, Height |-> 1080],
   Rates |-> <<[Rate |-> <<60, 0>>, IsCurrent |-> TRUE, IsPreferred |-> TRUE],
               [Rate |-> <<5994, 2>>, IsCurrent |-> FALSE,
                IsPreferred |-> FALSE]>>]

\* C6: in both variants, parseModes entered on the white space that starts
\* the line "1920x1080i     60.00*+  59.94  " (a line terminator or the end
\* of the input after it) returns without error and has appended exactly the
\* one OutputMode of the line, its two rates in order.
C6_InterlacedModeLine ==
  (Entered("parseModes")
     /\ input \in {ModeInterlaced, ModeInterlaced \o <<LT>>}) =>
     /\ err = Nil
     /\ output.Modes = <<InterlacedMode>>

\* The name of the k-th Output returned.
OutputNames == [k \in 1..Len(props) |-> props[k].Name]

\* C7: in both variants, a Name that is no resolution ends the mode list:
\* parseModes returns without error with that token still current and the
\* modes appended so far kept, and ParseProps reads the token as the name of
\* the next output, so that an output with a mode list followed by another
\* output yields both outputs in source order.
C7_NonResolutionEndsModeList ==
  /\ (Entered("parseModes") /\ input = <<Sp5>> \o LineHDMI) =>
       /\ err = Nil
       /\ token.Type = TokenTypeName /\ token.Literal = S_HDMI1
       /\ lexer = 2
       /\ output.Modes = << >>
  /\ (Entered("parseModes") /\ input = ModeTight \o LineHDMI) =>
       /\ err = Nil
       /\ token.Type = TokenTypeName /\ token.Literal = S_HDMI1
       /\ lexer = Len(ModeTight) + 1
       /\ Len(output.Modes) = 1
  /\ (ParsePropsDone
        /\ IsDocument(LineHDMI \o <<LT>> \o ModeProgressive \o <<LT>>
                      \o LineEDP)) =>
       /\ err = Nil
       /\ OutputNames = <<S_HDMI1, S_eDP1>>

\* C8: in both variants, "primary" is looked for only after the status
\* "connected": every Output parseOutputStatus has built with IsPrimary set
\* has IsConnected set.
C8_PrimaryOnlyWhenConnected ==
  /\ Entered("parseOutputStatus") => (output.IsPrimary => output.IsConnected)
  /\ \A k \in 1..Len(props) : props[k].IsPrimary => props[k].IsConnected

IsName(s, i, ls) ==
  i <= Len(s) /\ s[i].Type = TokenTypeName /\ s[i].Literal \in ls

\* What C9 lets parseOutputRotationAndReflection consume of a stream that
\* starts at the current token: a rotation keyword, then 'x' or 'y' with
\* 'axis' when both are there.
RotationTokens(s) ==
  IF IsName(s, 1, {S_normal, S_left, S_inverted, S_right}) THEN 1 ELSE 0

ReflectionTokens(s) ==
  IF /\ IsName(s, RotationTokens(s) + 1, {S_x, S_y})
     /\ IsName(s, RotationTokens(s) + 2, {S_axis})
  THEN 2 ELSE 0

ExpectedRotation(s) ==
  IF RotationTokens(s) = 0 THEN RotationNormal
  ELSE CASE s[1].Literal = S_normal -> RotationNormal
         [] s[1].Literal = S_left -> RotationLeft
         [] s[1].Literal = S_inverted -> RotationInverted
         [] s[1].Literal = S_right -> RotationRight

ExpectedReflection(s) ==
  IF ReflectionTokens(s) = 0 THEN ReflectionNone
  ELSE IF s[RotationTokens(s) + 1].Literal = S_x THEN ReflectionXAxis
  ELSE ReflectionYAxis

\* The lexer cursor once k tokens of the stream are consumed and the token
\* after them is current.
CursorAfter(k) == IF k + 1 <= Len(input) THEN k + 1 ELSE Len(input)

\* C9: in both variants, parseOutputRotationAndReflection returns no error
\* and consumes exactly the tokens it recognises, setting rotation and
\* reflection from them; every other token stays unconsumed.
C9_RotationConsumesWhatItRecognises ==
  Entered("parseOutputRotationAndReflection") =>
     /\ err = Nil
     /\ lexer = CursorAfter(RotationTokens(input) + ReflectionTokens(input))
     /\ token = LexerScan(RotationTokens(input) + ReflectionTokens(input)).tok
     /\ output.Rotation = ExpectedRotation(input)
     /\ output.Reflection = ExpectedReflection(input)

IsDimension(t) ==
  /\ t.Type = TokenTypeName
  /\ Len(t.Literal) >= 3
  /\ SubSeq(t.Literal, Len(t.Literal) - 1, Len(t.Literal)) = <<"m", "m">>
  /\ IsDigits(SubSeq(t.Literal, 1, Len(t.Literal) - 2))

\* A Name that is no digits-mm stands in the width or in the height position.
BadDimension(s) ==
  /\ Len(s) >= 1
  /\ s[1].Type = TokenTypeName
  /\ \/ ~IsDimension(s[1])
     \/ /\ Len(s) >= 3
        /\ s[2] = N(S_x)
        /\ s[3].Type = TokenTypeName
        /\ ~IsDimension(s[3])

\* C10: in both variants, once the dimensions step is attempted, a Name in
\* the width or height position that is no digits-mm makes the step, and with
\* it ParseProps, return a parse error: no Output gets a 0 from such a token.
C10_BadDimensionIsAnError ==
  /\ (Entered("parseOutputDimensions") /\ BadDimension(input)) => err # Nil
  /\ (ParsePropsDone /\ (IsDocument(LineBadWidth) \/ IsDocument(LineBadHeight)))
       => (err # Nil /\ props = << >>)


----------------------------------------------------------------------------
(* Properties of the property block.                                       *)

IsPrefix(s, t) == Len(s) <= Len(t) /\ SubSeq(t, 1, Len(s)) = s

\* C11: in src/xrandr/parser.go, with or without physical dimensions, the
\* line terminator of an output's header line is consumed by the dimensions
\* step and the tab that begins the next line is not skipped: parseProperties
\* of the first output starts with that tab as the current token.
C11_TabVisibleAtProperties ==
  \A h \in {GoodHeader, SpacedHeader}, l \in {LineHDMI, LineEDP} :
    (/\ entry = "ParseProps" /\ variant = "A"
     /\ pc = "parseProperties" /\ props = << >>
     /\ IsPrefix(h \o l \o <<LT, Tab>>, input)) =>
       /\ IsTab(token)
       /\ lexer = Len(h) + Len(l) + 2

\* C12: in both variants, parseProperties entered with a current token that
\* is no tab (a run of spaces, a Name, a line terminator, the end of the
\* input) returns nil, consumes no token and adds no property.
C12_NoTabEndsPropertyBlock ==
  (entry = "parseProperties" /\ ~IsTab(LexerScan(0).tok)) =>
     /\ err = Nil
     /\ lexer = LexerScan(0).pos
     /\ token = LexerScan(0).tok
     /\ output.Properties = NewOutput.Properties
     /\ pc \in {"parseProperties", "propsLoop", "done"}

\* The text of continuation lines: the literals after the two tabs of each
\* line, up to its line terminator, joined.
RECURSIVE ContText(_)
ContText(cs) ==
  IF Len(cs) = 0 THEN S_Empty
  ELSE Literals(SubSeq(Head(cs), 3, Len(Head(cs)) - 1)) \o ContText(Tail(cs))

\* The property of the run has been stored with value v.
Stored(n, v) ==
  /\ n \in DOMAIN output.Properties => output.Properties[n] = v
  /\ (pc = "done" /\ err = Nil) => n \in DOMAIN output.Properties

\* C13: in src/xrandr/parser.go, a value that starts after the line
\* terminator is the trimmed text of all its two-tab continuation lines,
\* joined in order with nothing between them; a value that starts inline is
\* the trimmed text of its own line, and the continuation lines add nothing.
C13_ContinuationLines ==
  \A cs \in SeqsUpTo(ContLines, MaxLines), t \in PropTails :
    /\ (entry = "parseProperties" /\ variant = "A"
          /\ input = PropEDID \o Flatten(cs) \o t) =>
         Stored(S_EDID, TrimSpace(ContText(cs)))
    /\ (entry = "parseProperties" /\ variant = "A"
          /\ input = PropBrightness \o Flatten(cs) \o t) =>
         Stored(S_Brightness, S_F1000000)

\* C13 witness: variant A has returned from "EDID: " with two continuation
\* lines and has stored their text.
C13_Witness ==
  /\ Entered("parseProperties")
  /\ variant = "A"
  /\ input = PropEDID \o Cont00ff \o Cont1a2b
  /\ S_EDID \in DOMAIN output.Properties
  /\ output.Properties[S_EDID] = S_Hex00ff \o S_Hex1a2b \o S_Space \o S_Hex00ff

\* C14: in both variants, property parsing terminates on every finite token
\* stream: a run that has not returned can always take a step that changes
\* its state (a loop turn that changes nothing is taken for ever).
C14_PropertyParsingTerminates ==
  entry \in {"parseProperties", "parseProperty"} =>
    (pc = "done" \/ ENABLED <<Next>>_vars)

----------------------------------------------------------------------------
(* Properties of the i3 event thread.                                      *)

\* C15: in src/i3/thread.go, once Stop has cancelled the context the relay
\* sends no further Event: no event that arrived after the cancellation is
\* pushed to msgCh.
C15_NoEventAfterCancel ==
  [][(relayPc = "send" /\ relayPc' = "next") => ~late]_vars

\* C16: in src/i3/thread.go, Stop is effective under every interleaving:
\* once Stop has been called after Start was invoked, Start returns in the
\* end.
C16_StopMakesStartReturn == (stopPc # "idle") ~> (startPc = "done")
====
